---- MODULE Spec2Model ----
(***************************************************************************)
(* machiver: date resolution (date.rs, main.rs), checksum manifests        *)
(* (manifest.rs) and the recursive copy pipeline (copy.rs).                *)
(*                                                                         *)
(* Text is a sequence of one-character strings; a path is a sequence of    *)
(* path components, each a text.  A point in time is a number of seconds   *)
(* since the epoch.                                                        *)
(***************************************************************************)
EXTENDS Integers, Sequences, FiniteSets, TLC

VARIABLES
    disk,         \* the filesystem: path -> node
    disk0,        \* the filesystem the program was started on
    manifest_arg, \* the manifest file named to the program, if any
    config,       \* the CopyConfig process_path was called with
    stack,        \* the activations of _process_path, innermost last
    outcome,      \* what the copy command got back, once it has
    copies,       \* the calls of copy_file so far, in order
    listing,      \* directory -> the order its stream yielded its entries in
    call          \* the completed call of a library function or of `date`

vars == <<disk, disk0, manifest_arg, config, stack, outcome, copies, listing, call>>

None == [none |-> TRUE]

Some(v) == [some |-> v]

Ok(v) == [ok |-> v]

Err(e) == [err |-> e]

IsOk(r) == "ok" \in DOMAIN r

IsErr(r) == "err" \in DOMAIN r

IsSome(o) == "some" \in DOMAIN o

(***************************************************************************)
(* Text                                                                    *)
(***************************************************************************)
DigitChars == <<"0", "1", "2", "3", "4", "5", "6", "7", "8", "9">>

IsDigit(c) == \E i \in 1..10 : DigitChars[i] = c

DigitVal(c) == (CHOOSE i \in 1..10 : DigitChars[i] = c) - 1

IsSpace(c) == c \in {" ", "\t", "\n", "\r"}

\* A unit of a file name (an OsStr) that is not valid Unicode: a lone byte
\* 0xFF.  Every other unit is a character.
BadByte == "0xFF"

\* OsStr::to_str: the text, if all of it is valid Unicode.
to_str(os) == IF \E i \in 1..Len(os) : os[i] = BadByte THEN None ELSE Some(os)

\* Rust's `{}` of an integer: decimal, no padding, a minus sign if negative.
RECURSIVE FormatNat(_)
FormatNat(n) ==
    IF n < 10 THEN <<DigitChars[n + 1]>>
    ELSE FormatNat(n \div 10) \o <<DigitChars[(n % 10) + 1]>>

FormatInt(n) == IF n < 0 THEN <<"-">> \o FormatNat(-n) ELSE FormatNat(n)

\* As FormatPad2, without the padding (`{}` in place of `{:02}`).
FormatPad2_Unpadded(n) == FormatNat(n)

\* Rust's `{:02}` of a u32: decimal, zero-padded on the left to width 2.
FormatPad2(n) == IF n < 10 THEN <<"0">> \o FormatNat(n) ELSE FormatNat(n)

(***************************************************************************)
(* Calendar time                                                           *)
(***************************************************************************)
\* The offset of the local time zone from UTC, in seconds (chrono's Local).
LocalOffsetSecs == 3600

SecsPerDay == 24 * 60 * 60

IsLeap(y) == (y % 4 = 0 /\ y % 100 # 0) \/ y % 400 = 0

DaysInMonth(y, m) ==
    IF m = 2 THEN (IF IsLeap(y) THEN 29 ELSE 28)
    ELSE IF m \in {4, 6, 9, 11} THEN 30 ELSE 31

\* The proleptic Gregorian date of a day counted from 1970-01-01.
CivilFromDays(days) ==
    LET z   == days + 719468
        era == z \div 146097
        doe == z - era * 146097
        yoe == (doe - doe \div 1460 + doe \div 36524 - doe \div 146096) \div 365
        doy == doe - (365 * yoe + yoe \div 4 - yoe \div 100)
        mp  == (5 * doy + 2) \div 153
        d   == doy - (153 * mp + 2) \div 5 + 1
        m   == IF mp < 10 THEN mp + 3 ELSE mp - 9
        y   == yoe + era * 400 + (IF m <= 2 THEN 1 ELSE 0)
    IN  [year |-> y, month |-> m, day |-> d]

\* DateTime<Local>::from(SystemTime).naive_local()
NaiveLocal(t) ==
    LET s   == t + LocalOffsetSecs
        ymd == CivilFromDays(s \div SecsPerDay)
        r   == s % SecsPerDay
    IN  [year |-> ymd.year, month |-> ymd.month, day |-> ymd.day,
         hour |-> r \div 3600, minute |-> (r % 3600) \div 60, second |-> r % 60]

(***************************************************************************)
(* NaiveDateTime::parse_from_str(text, "%Y-%m-%d %H:%M:%S")                *)
(***************************************************************************)
RECURSIVE SkipSpace(_, _)
SkipSpace(s, i) ==
    IF i <= Len(s) /\ IsSpace(s[i]) THEN SkipSpace(s, i + 1) ELSE i

\* The greedy scan of 1..width digits at position i: the value and the
\* position after it, or a value of -1 when no digit is there.
RECURSIVE ScanNumber(_, _, _, _)
ScanNumber(s, i, width, acc) ==
    IF width > 0 /\ i <= Len(s) /\ IsDigit(s[i])
    THEN ScanNumber(s, i + 1, width - 1,
                    (IF acc < 0 THEN 0 ELSE acc * 10) + DigitVal(s[i]))
    ELSE [val |-> acc, next |-> i]

\* The items of the pattern: a numeric field of a maximal width, a literal
\* character, or white space.
DateTimePattern ==
    << [num |-> "year", width |-> 4], [lit |-> "-"],
       [num |-> "month", width |-> 2], [lit |-> "-"],
       [num |-> "day", width |-> 2], [space |-> TRUE],
       [num |-> "hour", width |-> 2], [lit |-> ":"],
       [num |-> "minute", width |-> 2], [lit |-> ":"],
       [num |-> "second", width |-> 2] >>

NoFields ==
    [year |-> -1, month |-> -1, day |-> -1, hour |-> -1, minute |-> -1, second |-> -1]

\* The fields scanned from position i on by the items k.. of the pattern,
\* or None: a numeric item skips white space and takes digits, a literal
\* must be next, white space in the pattern takes any white space, and
\* nothing may follow the last item.
RECURSIVE ScanItems(_, _, _, _)
ScanItems(s, i, k, got) ==
    IF k > Len(DateTimePattern)
    THEN (IF i > Len(s) THEN Some(got) ELSE None)
    ELSE LET item == DateTimePattern[k] IN
         IF "num" \in DOMAIN item
         THEN LET j == SkipSpace(s, i)
                  n == ScanNumber(s, j, item.width, -1)
              IN  IF n.val < 0 THEN None
                  ELSE ScanItems(s, n.next, k + 1, [got EXCEPT ![item.num] = n.val])
         ELSE IF "lit" \in DOMAIN item
         THEN (IF i <= Len(s) /\ s[i] = item.lit
               THEN ScanItems(s, i + 1, k + 1, got) ELSE None)
         ELSE ScanItems(s, SkipSpace(s, i), k + 1, got)

\* A leap second (60) is kept as second 59 of the same minute.
ParseDateTime(s) ==
    LET p == ScanItems(s, 1, 1, NoFields) IN
    IF ~IsSome(p) THEN None
    ELSE LET f == p.some IN
         IF /\ f.month \in 1..12
            /\ f.day \in 1..DaysInMonth(f.year, f.month)
            /\ f.hour \in 0..23 /\ f.minute \in 0..59 /\ f.second \in 0..60
         THEN Some([f EXCEPT !.second = IF f.second = 60 THEN 59 ELSE f.second])
         ELSE None

(***************************************************************************)
(* The filesystem                                                          *)
(***************************************************************************)
\* Points in time a file may carry: 2020-03-07 03:03:03, 2023-12-31 23:59:59
\* and 2021-11-09 22:30:00, all UTC.
Times == {1583550183, 1704067199, 1636497000}

\* A file whose platform or filesystem records no time of that kind.
NoTime == -1

FileNode(content, mtime, ctime, readable) ==
    [kind |-> "file", content |-> content, mtime |-> mtime, ctime |-> ctime,
     readable |-> readable, writable |-> TRUE]

\* A node whose permission bits allow no writing.
ReadOnly(node) == [node EXCEPT !.writable = FALSE]

DirNode(readable) ==
    [kind |-> "dir", content |-> "", mtime |-> 1583550183, ctime |-> NoTime,
     readable |-> readable, writable |-> TRUE]

\* The path component that names the parent directory.
DotDot == <<".", ".">>

\* What a path that cannot be resolved names: no node has an empty component.
NoNode == << <<>> >>

\* Path resolution, as the system does it for a path with `..` components:
\* from the current directory <<>>, each component is looked up in the
\* directory reached so far, `..` leading to its parent; NoNode if a
\* component before the last is missing or is no directory.
RECURSIVE Walk(_, _, _)
Walk(d, p, cur) ==
    IF p = <<>> THEN cur
    ELSE IF ~(cur = <<>> \/ (cur \in DOMAIN d /\ d[cur].kind = "dir")) THEN NoNode
    ELSE IF Head(p) = DotDot THEN Walk(d, Tail(p), SubSeq(cur, 1, Len(cur) - 1))
    ELSE Walk(d, Tail(p), Append(cur, Head(p)))

\* The node path p names: p itself, unless it has `..` components.
Resolve(d, p) ==
    IF \E i \in 1..Len(p) : p[i] = DotDot THEN Walk(d, p, <<>>) ELSE p

\* Neither a regular file nor a directory: a socket, a device, a FIFO.
OtherNode ==
    [kind |-> "other", content |-> "", mtime |-> NoTime, ctime |-> NoTime,
     readable |-> TRUE, writable |-> TRUE]

Exists(d, p) == Resolve(d, p) \in DOMAIN d

\* Path::is_file and Path::is_dir: false for a path that does not exist.
is_file(d, p) == Exists(d, p) /\ d[Resolve(d, p)].kind = "file"

is_dir(d, p) ==
    Resolve(d, p) = <<>> \/ (Exists(d, p) /\ d[Resolve(d, p)].kind = "dir")

IoError(what, p) == [kind |-> "io", what |-> what, path |-> p]

\* File::open followed by read_to_end: the whole content, or the I/O error.
ReadFile(d, p) ==
    IF Resolve(d, p) = <<>> THEN Err(IoError("IsADirectory", p))
    ELSE IF ~Exists(d, p) THEN Err(IoError("NotFound", p))
    ELSE IF ~d[Resolve(d, p)].readable THEN Err(IoError("PermissionDenied", p))
    ELSE IF d[Resolve(d, p)].kind = "dir" THEN Err(IoError("IsADirectory", p))
    ELSE IF d[Resolve(d, p)].kind # "file" THEN Err(IoError("NotReadable", p))
    ELSE Ok(d[Resolve(d, p)].content)

(***************************************************************************)
(* The embedded metadata of a file's content, as the exif library shows    *)
(* it: the text of the primary image's DateTime field, if the content is a *)
(* container that has one.                                                 *)
(***************************************************************************)
Contents == {"jpegA", "jpegB", "jpegC", "jpegBad", "jpegCut", "heif", "text", ""}

ExifDateText(content) ==
    CASE content = "jpegA" ->
            Some(<<"2","0","2","0","-","1","2","-","2","6"," ",
                   "1","0",":","1","1",":","1","2">>)
      [] content = "jpegB" ->
            Some(<<"9","2","1","-","3","-","7"," ","1",":","2",":","3">>)
      [] content = "jpegC" ->
            Some(<<"2","0","2","0","-","1","2","-","2","6"," ",
                   "2","3",":","5","9",":","6","0">>)
      [] content = "jpegBad" ->
            Some(<<"2","0","2","1","-","0","2","-","3","0"," ",
                   "0","0",":","0","0",":","0","0">>)
      [] content = "jpegCut" ->
            Some(<<"2","0","2","0","-","1","2","-","2","6">>)
      [] OTHER -> None

\* Reader::read_from_container(..).ok().and_then(get_field ..).and_then(parse ..)
ExifDate(content) ==
    LET text == ExifDateText(content) IN
    IF IsSome(text) THEN ParseDateTime(text.some) ELSE None

(***************************************************************************)
(* get_date                                                                *)
(***************************************************************************)
\* fs::metadata(path)?.modified()?
ModifiedTime(d, p) ==
    IF Resolve(d, p) = <<>> THEN Ok(DirNode(TRUE).mtime)
    ELSE IF ~Exists(d, p) THEN Err(IoError("NotFound", p))
    ELSE IF d[Resolve(d, p)].mtime = NoTime THEN Err(IoError("Unsupported", p))
    ELSE Ok(d[Resolve(d, p)].mtime)

\* fs::metadata(path)?.created()?
CreatedTime(d, p) ==
    IF Resolve(d, p) = <<>> THEN Err(IoError("Unsupported", p))
    ELSE IF ~Exists(d, p) THEN Err(IoError("NotFound", p))
    ELSE IF d[Resolve(d, p)].ctime = NoTime THEN Err(IoError("Unsupported", p))
    ELSE Ok(d[Resolve(d, p)].ctime)

\* As get_date, the modification time taken whenever it can be read.
get_date_PrefersModified(d, path) ==
    IF IsErr(ReadFile(d, path)) THEN ReadFile(d, path)
    ELSE IF IsOk(ModifiedTime(d, path)) THEN Ok(NaiveLocal(ModifiedTime(d, path).ok))
    ELSE IF IsSome(ExifDate(ReadFile(d, path).ok))
    THEN Ok(ExifDate(ReadFile(d, path).ok).some)
    ELSE ModifiedTime(d, path)

\* As get_date, a file that cannot be read falling back to the modification
\* time as one without an embedded date does.
get_date_ReadErrorFallsBack(d, path) ==
    IF IsOk(ReadFile(d, path)) /\ IsSome(ExifDate(ReadFile(d, path).ok))
    THEN Ok(ExifDate(ReadFile(d, path).ok).some)
    ELSE IF IsErr(ModifiedTime(d, path)) THEN ModifiedTime(d, path)
    ELSE Ok(NaiveLocal(ModifiedTime(d, path).ok))

\* date.rs: the embedded date, else the modification time.
get_date(d, path) ==
    LET buffer == ReadFile(d, path) IN
    IF IsErr(buffer) THEN buffer
    ELSE LET exif_date == ExifDate(buffer.ok) IN
         IF IsSome(exif_date) THEN Ok(exif_date.some)
         ELSE LET modified == ModifiedTime(d, path) IN
              IF IsErr(modified) THEN modified
              ELSE Ok(NaiveLocal(modified.ok))

\* main.rs: the embedded date, else the creation time.
main_get_date(d, path) ==
    LET buffer == ReadFile(d, path) IN
    IF IsErr(buffer) THEN buffer
    ELSE LET exif_date == ExifDate(buffer.ok) IN
         IF IsSome(exif_date) THEN Ok(exif_date.some)
         ELSE LET created == CreatedTime(d, path) IN
              IF IsErr(created) THEN created
              ELSE Ok(NaiveLocal(created.ok))

(***************************************************************************)
(* Digests and manifests                                                   *)
(***************************************************************************)
\* The digest primitives, bytes -> hexadecimal text, shortened to two
\* characters: the first tells the algorithm (digests of different
\* algorithms differ in length), the second the content (no collisions).
ContentTag(content) ==
    CASE content = "jpegA" -> "1" [] content = "jpegB" -> "2"
      [] content = "jpegBad" -> "3" [] content = "jpegCut" -> "4"
      [] content = "heif" -> "5" [] content = "text" -> "6"
      [] content = "jpegC" -> "7" [] OTHER -> "0"

Md5Hex(data) == <<"a", ContentTag(data)>>

Sha256Hex(data) == <<"b", ContentTag(data)>>

Sha512Hex(data) == <<"c", ContentTag(data)>>

\* HashAlgorithm::calculate_hash
calculate_hash(algorithm, data) ==
    CASE algorithm = "MD5" -> Md5Hex(data)
      [] algorithm = "SHA256" -> Sha256Hex(data)
      [] algorithm = "SHA512" -> Sha512Hex(data)

\* Whether text `pat` occurs in text `s` (str::contains).
Contains(s, pat) ==
    \E i \in 1..(Len(s) - Len(pat) + 1) : SubSeq(s, i, i + Len(pat) - 1) = pat

\* As from_filename, the markers looked for in the order sha256, sha512, md5.
from_filename_ShaFirst(name) ==
    LET filename == IF IsSome(to_str(name)) THEN to_str(name).some ELSE <<>> IN
    IF Contains(filename, <<"s", "h", "a", "2", "5", "6">>) THEN "SHA256"
    ELSE IF Contains(filename, <<"s", "h", "a", "5", "1", "2">>) THEN "SHA512"
    ELSE IF Contains(filename, <<"m", "d", "5">>) THEN "MD5"
    ELSE "SHA256"

\* HashAlgorithm::from_filename, on the file name of the manifest's path.
from_filename(name) ==
    LET filename == IF IsSome(to_str(name)) THEN to_str(name).some ELSE <<>> IN
    IF Contains(filename, <<"m", "d", "5">>) THEN "MD5"
    ELSE IF Contains(filename, <<"s", "h", "a", "2", "5", "6">>) THEN "SHA256"
    ELSE IF Contains(filename, <<"s", "h", "a", "5", "1", "2">>) THEN "SHA512"
    ELSE "SHA256"

\* str::lines: the text split at line feeds, a final line feed opening no
\* further line, and a carriage return before a line feed dropped.
RECURSIVE SplitLines(_, _, _)
SplitLines(s, i, cur) ==
    IF i > Len(s) THEN (IF cur = <<>> THEN <<>> ELSE <<cur>>)
    ELSE IF s[i] = "\n"
    THEN <<(IF cur # <<>> /\ cur[Len(cur)] = "\r"
            THEN SubSeq(cur, 1, Len(cur) - 1) ELSE cur)>>
         \o SplitLines(s, i + 1, <<>>)
    ELSE SplitLines(s, i + 1, Append(cur, s[i]))

Lines(s) == SplitLines(s, 1, <<>>)

\* line.trim().is_empty()
IsBlank(line) == \A i \in 1..Len(line) : IsSpace(line[i])

\* line.split_whitespace(): the maximal runs of characters that are not
\* white space, in order.
RECURSIVE SplitWhitespace(_, _, _)
SplitWhitespace(s, i, cur) ==
    IF i > Len(s) THEN (IF cur = <<>> THEN <<>> ELSE <<cur>>)
    ELSE IF IsSpace(s[i])
    THEN (IF cur = <<>> THEN <<>> ELSE <<cur>>) \o SplitWhitespace(s, i + 1, <<>>)
    ELSE SplitWhitespace(s, i + 1, Append(cur, s[i]))

\* As FirstToken, taking the last token of the line.
FirstToken_Last(line) ==
    SplitWhitespace(line, 1, <<>>)[Len(SplitWhitespace(line, 1, <<>>))]

\* parts[0] of line.split_whitespace().collect()
FirstToken(line) == SplitWhitespace(line, 1, <<>>)[1]

\* .filter(|line| !line.trim().is_empty()).map(|line| first token).collect()
RECURSIVE Checksums(_)
Checksums(lines) ==
    IF lines = <<>> THEN <<>>
    ELSE IF IsBlank(Head(lines)) THEN Checksums(Tail(lines))
    ELSE <<FirstToken(Head(lines))>> \o Checksums(Tail(lines))

ManifestEmpty == [kind |-> "msg", what |-> "Manifest file is empty", path |-> <<>>]

\* As parse_manifest, an empty list of checksums being no error.
parse_manifest_AllowEmpty(file) ==
    Ok([checksums |-> Checksums(Lines(file.text)), algorithm |-> from_filename(file.name)])

\* manifest.rs parse_manifest, of a manifest file that read as `file.text`
\* and is named `file.name`.
parse_manifest(file) ==
    LET checksums == Checksums(Lines(file.text)) IN
    IF checksums = <<>> THEN Err(ManifestEmpty)
    ELSE Ok([checksums |-> checksums, algorithm |-> from_filename(file.name)])

\* copy.rs and main.rs parse_manifest: the checksums alone.
copy_parse_manifest(file) ==
    LET checksums == Checksums(Lines(file.text)) IN
    IF checksums = <<>> THEN Err(ManifestEmpty) ELSE Ok(checksums)

\* Whether `digest` equals an entry of `checksums` (exact text equality).
InChecksums(digest, checksums) ==
    \E i \in 1..Len(checksums) : checksums[i] = digest

\* manifest.rs is_duplicate: the result, and the files it opened.
manifest_is_duplicate(d, source, manifest) ==
    IF ~IsSome(manifest) THEN [result |-> Ok(None), opened |-> {}]
    ELSE LET buffer == ReadFile(d, source) IN
         IF IsErr(buffer) THEN [result |-> buffer, opened |-> {source}]
         ELSE LET digest == calculate_hash(manifest.some.algorithm, buffer.ok) IN
              [result |-> IF InChecksums(digest, manifest.some.checksums)
                          THEN Ok(Some(source)) ELSE Ok(None),
               opened |-> {source}]

\* As is_duplicate, the file read before the manifest is looked at.
is_duplicate_ReadFirst(d, source, manifest) ==
    IF IsErr(ReadFile(d, source)) THEN [result |-> ReadFile(d, source), opened |-> {source}]
    ELSE IF ~IsSome(manifest) THEN [result |-> Ok(None), opened |-> {source}]
    ELSE [result |-> IF InChecksums(Md5Hex(ReadFile(d, source).ok), manifest.some)
                     THEN Ok(Some(source)) ELSE Ok(None),
          opened |-> {source}]

\* copy.rs is_duplicate: the manifest is the list of checksums, the digest MD5.
is_duplicate(d, source, manifest) ==
    IF ~IsSome(manifest) THEN [result |-> Ok(None), opened |-> {}]
    ELSE LET buffer == ReadFile(d, source) IN
         IF IsErr(buffer) THEN [result |-> buffer, opened |-> {source}]
         ELSE LET digest == Md5Hex(buffer.ok) IN
              [result |-> IF InChecksums(digest, manifest.some)
                          THEN Ok(Some(source)) ELSE Ok(None),
               opened |-> {source}]

(***************************************************************************)
(* copy_file                                                               *)
(***************************************************************************)
\* The time the clock shows while the operation runs: 2024-11-01 00:00:00 UTC.
Now == 1730419200

Parent(p) == SubSeq(p, 1, Len(p) - 1)

\* Whether path p is path `root` or lies below it.
Under(p, root) == Len(p) >= Len(root) /\ SubSeq(p, 1, Len(root)) = root

\* Path::file_name: the last component, unless there is none or it is `..`.
file_name(p) ==
    IF p = <<>> \/ p[Len(p)] = DotDot THEN None ELSE Some(p[Len(p)])

\* Path::extension: what follows the last `.` of the file name, unless the
\* file name has no `.` or only the one it starts with.
RECURSIVE LastDot(_, _)
LastDot(name, i) ==
    IF i = 0 THEN 0 ELSE IF name[i] = "." THEN i ELSE LastDot(name, i - 1)

extension(p) ==
    LET name == file_name(p) IN
    IF ~IsSome(name) THEN None
    ELSE LET k == LastDot(name.some, Len(name.some)) IN
         IF k <= 1 THEN None ELSE Some(SubSeq(name.some, k + 1, Len(name.some)))

\* Uuid::new_v4().to_string(): 36 characters, hexadecimal digits in groups
\* of 8-4-4-4-12 joined by dashes, the version digit 4 and the variant digit
\* in their places; `r` stands for the random bits.
UuidText(r) ==
    [i \in 1..36 |->
        IF i \in {9, 14, 19, 24} THEN "-"
        ELSE IF i = 15 THEN "4"
        ELSE IF i = 20 THEN "8"
        ELSE IF i = 36 THEN DigitChars[r + 1]
        ELSE IF i = 1 THEN "e"
        ELSE "0"]

\* str::to_lowercase, on the letters file names and identifiers are made of.
to_lowercase(text) ==
    [i \in 1..Len(text) |->
        CASE text[i] = "A" -> "a" [] text[i] = "E" -> "e" [] text[i] = "J" -> "j"
          [] OTHER -> text[i]]

\* As generate_uuid_filename, the whole name put in lower case.
generate_uuid_filename_AllLowercase(original, r) ==
    to_lowercase(
        IF ~IsSome(extension(original)) \/ ~IsSome(to_str(extension(original).some))
           \/ extension(original).some = <<>>
        THEN UuidText(r)
        ELSE UuidText(r) \o <<".">> \o extension(original).some)

\* generate_uuid_filename
generate_uuid_filename(original, r) ==
    LET ext  == extension(original)
        extension_text == IF IsSome(ext) /\ IsSome(to_str(ext.some))
                          THEN to_str(ext.some).some ELSE <<>>
        uuid == to_lowercase(UuidText(r))
    IN  IF extension_text = <<>> THEN uuid
        ELSE uuid \o <<".">> \o extension_text

\* format!("{}/{:02}/{:02}", date.year(), date.month(), date.day()), as the
\* path of three components it makes.
DatePath(date) ==
    <<FormatInt(date.year), FormatPad2(date.month), FormatPad2(date.day)>>

\* fs::create_dir_all: every missing directory of the chain is made; an
\* existing directory is no error, anything else in the way is.
RECURSIVE create_dir_all(_, _, _)
create_dir_all(d, p, k) ==
    IF k > Len(p) THEN [result |-> Ok(TRUE), disk |-> d]
    ELSE LET q == SubSeq(p, 1, k) IN
         IF Exists(d, q)
         THEN (IF d[q].kind = "dir" THEN create_dir_all(d, p, k + 1)
               ELSE [result |-> Err(IoError("NotADirectory", q)), disk |-> d])
         ELSE create_dir_all(
                [x \in DOMAIN d \cup {q} |-> IF x = q THEN [DirNode(TRUE) EXCEPT !.mtime = Now] ELSE d[x]],
                p, k + 1)

\* fs::copy: the bytes of `from` replace those of `to`, which is made if it
\* is missing; `to` is opened for writing, which the permission bits of an
\* existing file may refuse, and emptied before `from` is read, so a file
\* copied onto itself ends up empty; the permission bits of `from` are set
\* on `to`.
copy(d, from, to) ==
    IF Resolve(d, from) = <<>> THEN [result |-> Err(IoError("NotAFile", from)), disk |-> d]
    ELSE IF ~Exists(d, from) THEN [result |-> Err(IoError("NotFound", from)), disk |-> d]
    ELSE IF ~d[Resolve(d, from)].readable
    THEN [result |-> Err(IoError("PermissionDenied", from)), disk |-> d]
    ELSE IF d[Resolve(d, from)].kind # "file"
    THEN [result |-> Err(IoError("NotAFile", from)), disk |-> d]
    ELSE IF ~is_dir(d, Parent(to))
    THEN [result |-> Err(IoError("NotFound", to)), disk |-> d]
    ELSE IF Exists(d, to) /\ d[to].kind # "file"
    THEN [result |-> Err(IoError("NotAFile", to)), disk |-> d]
    ELSE IF Exists(d, to) /\ ~d[to].writable
    THEN [result |-> Err(IoError("PermissionDenied", to)), disk |-> d]
    ELSE LET bytes == IF to = Resolve(d, from) THEN "" ELSE d[Resolve(d, from)].content
             made  == IF Exists(d, to) THEN d[to].ctime ELSE Now
         IN  [result |-> Ok(TRUE),
              disk |-> [x \in DOMAIN d \cup {to} |->
                          IF x = to
                          THEN [FileNode(bytes, Now, made, d[Resolve(d, from)].readable)
                                  EXCEPT !.writable = d[Resolve(d, from)].writable]
                          ELSE d[x]]]

NoName == [kind |-> "msg", what |-> "Source file has no name", path |-> <<>>]

\* As copy_file_copy, the path of the source returned after the copy.
copy_file_copy_ReturnsSource(source, target_path, copied) ==
    IF IsErr(copied.result)
    THEN [result |-> copied.result, disk |-> copied.disk, duplicate |-> FALSE]
    ELSE [result |-> Ok(source), disk |-> copied.disk, duplicate |-> FALSE]

\* copy_file, from the copy on: the target path is known.
copy_file_copy(source, target_path, copied) ==
    IF IsErr(copied.result)
    THEN [result |-> copied.result, disk |-> copied.disk, duplicate |-> FALSE]
    ELSE [result |-> Ok(target_path), disk |-> copied.disk, duplicate |-> FALSE]

\* copy_file, from the target file name on: the directory chain is made.
copy_file_name(d, source, target_dir, name) ==
    IF ~IsSome(name) THEN [result |-> Err(NoName), disk |-> d, duplicate |-> FALSE]
    ELSE copy_file_copy(source, Append(target_dir, name.some),
                        copy(d, source, Append(target_dir, name.some)))

\* copy_file, from create_dir_all on: the target directory is known.
copy_file_mkdir(source, target_dir, rename, r, made) ==
    IF IsErr(made.result)
    THEN [result |-> made.result, disk |-> made.disk, duplicate |-> FALSE]
    ELSE copy_file_name(made.disk, source, target_dir,
                        IF rename THEN Some(generate_uuid_filename(source, r))
                        ELSE file_name(source))

\* copy_file, from the date on: the file is no duplicate.
copy_file_dated(d, source, destination, rename, r, date) ==
    IF IsErr(date) THEN [result |-> date, disk |-> d, duplicate |-> FALSE]
    ELSE copy_file_mkdir(source, destination \o DatePath(date.ok), rename, r,
                         create_dir_all(d, destination \o DatePath(date.ok), 1))

\* copy_file, from the answer of is_duplicate on.
copy_file_checked(d, source, destination, rename, r, dup) ==
    IF IsErr(dup) THEN [result |-> dup, disk |-> d, duplicate |-> FALSE]
    ELSE IF IsSome(dup.ok)
    THEN [result |-> Ok(dup.ok.some), disk |-> d, duplicate |-> TRUE]
    ELSE copy_file_dated(d, source, destination, rename, r, get_date(d, source))

\* As copy_file, the duplicate check made after the directory chain.
copy_file_MkdirFirst(d, source, destination, rename, manifest, r) ==
    IF IsOk(get_date(d, source)) /\ IsOk(is_duplicate(d, source, manifest).result)
       /\ IsSome(is_duplicate(d, source, manifest).result.ok)
    THEN [result |-> Ok(source),
          disk |-> create_dir_all(d, destination \o DatePath(get_date(d, source).ok), 1).disk,
          duplicate |-> TRUE]
    ELSE copy_file_checked(d, source, destination, rename, r,
                           is_duplicate(d, source, manifest).result)

\* copy_file: the result and the filesystem it leaves; `r` is the random
\* number the UUID generator draws if it is asked.
copy_file(d, source, destination, rename, manifest, r) ==
    copy_file_checked(d, source, destination, rename, r,
                      is_duplicate(d, source, manifest).result)

(***************************************************************************)
(* The inputs: filesystems, manifest files, configurations                 *)
(***************************************************************************)
\* The most nodes the source tree holds below its root.
MaxNodes == 3

\* How many values the UUID generator's random number takes.
NumUuids == 2

\* The longest manifest text a call of parse_manifest is given.
MaxTextLen == 4

\* The longest file name a call of copy_file is given.
MaxNameLen == 3

\* The most nodes, its root among them, of a source tree on which
\* termination is checked.
MaxLiveNodes == 3

SrcRoot == << <<"s">> >>

OutRoot == << <<"o">> >>

InnerRoot == << <<"s">>, <<"o">> >>

NameA == <<"a", ".", "J">>

NameB == <<"b">>

\* What the source tree may hold below its root, parents before children.
Catalogue ==
    << [path |-> SrcRoot \o <<NameA>>, node |-> FileNode("jpegA", 1583550183, 1636497000, TRUE)],
       [path |-> SrcRoot \o <<NameB>>, node |-> FileNode("heif", 1583550183, 1704067199, TRUE)],
       [path |-> SrcRoot \o << <<"d">> >>, node |-> DirNode(TRUE)],
       [path |-> SrcRoot \o << <<"d">>, NameA >>, node |-> FileNode("jpegC", 1636497000, NoTime, TRUE)],
       [path |-> SrcRoot \o << <<"d">>, <<"c">> >>, node |-> FileNode("jpegB", 1704067199, 1704067199, TRUE)],
       [path |-> SrcRoot \o << <<"u">> >>, node |-> FileNode("text", 1704067199, 1583550183, FALSE)],
       [path |-> SrcRoot \o << <<"x">> >>, node |-> OtherNode],
       [path |-> InnerRoot, node |-> DirNode(TRUE)],
       [path |-> SrcRoot \o << <<"k">> >>, node |-> DirNode(FALSE)] >>

\* The filesystem holding the source root and the catalogue's entries `pick`.
DiskOf(pick) ==
    LET paths == {SrcRoot} \cup {Catalogue[i].path : i \in pick} IN
    [p \in paths |->
        IF p = SrcRoot THEN DirNode(TRUE)
        ELSE Catalogue[CHOOSE i \in pick : Catalogue[i].path = p].node]

InitDisks ==
    { DiskOf(pick) : pick \in
        { S \in SUBSET (1..Len(Catalogue)) :
            /\ Cardinality(S) <= MaxNodes
            /\ \A i \in S : Parent(Catalogue[i].path) = SrcRoot
                            \/ \E j \in S : Catalogue[j].path = Parent(Catalogue[i].path) } }

\* The filesystem an earlier `copy s/a.J s/o` left: the source tree with an
\* archive inside it.
ArchivedDisk == copy_file(DiskOf({1, 8}), SrcRoot \o <<NameA>>, InnerRoot, FALSE, None, 0).disk

\* The manifest files the copy command may be given: name and text.
ManifestFiles ==
    { [name |-> <<"m", "d", "5">>,
       text |-> <<"a", "1", " ", "s", "/", "a", "\n", "\n", "a", "5", "\n">>],
      [name |-> <<"s", "h", "a", "2", "5", "6">>,
       text |-> <<"b", "1", "\n", "b", "5", "\n">>],
      [name |-> <<"s", "h", "a", "5", "1", "2">>,
       text |-> <<"c", "1", "\n">>],
      [name |-> <<"m", "d", "5">>, text |-> <<" ", "\n">>] }

(***************************************************************************)
(* process_path                                                            *)
(***************************************************************************)
Idle == [state |-> "idle"]

DirWithoutRecursive(p) ==
    [kind |-> "msg", what |-> "is a directory. Use --recursive to process directories",
     path |-> p]

\* An activation of _process_path: its config, where it stands, the entries
\* its directory stream has yet to yield, and its copied_files.
Frame(cfg) ==
    [config |-> cfg, pc |-> "enter", entries |-> <<>>, copied_files |-> <<>>]

\* As NestedConfig, with the recursive flag left at its default.
NestedConfig_NotRecursive(cfg, path) ==
    [path |-> path, destination |-> cfg.destination, recursive |-> FALSE,
     rename |-> cfg.rename, manifest |-> cfg.manifest]

\* The config of the call on a directory entry: the caller's, but for the path.
NestedConfig(cfg, path) ==
    [path |-> path, destination |-> cfg.destination, recursive |-> cfg.recursive,
     rename |-> cfg.rename, manifest |-> cfg.manifest]

Top == stack[Len(stack)]

\* The entries of directory p: the paths one component below it.
Entries(d, p) == {q \in DOMAIN d : Len(q) = Len(p) + 1 /\ Under(q, p)}

\* The orders in which a directory stream may yield the entries S.
Orders(S) ==
    {f \in [1..Cardinality(S) -> S] : \A i, j \in DOMAIN f : i # j => f[i] # f[j]}

\* As Return, the caller putting the nested results before its own.
Return_Prepending(files) ==
    IF Len(stack) = 1
    THEN /\ stack' = <<>>
         /\ outcome' = [state |-> "ok", files |-> files]
    ELSE /\ stack' = [SubSeq(stack, 1, Len(stack) - 1) EXCEPT
                        ![Len(stack) - 1].copied_files = files \o @]
         /\ outcome' = outcome

\* The activation on top returns Ok(files): to its caller, which extends its
\* copied_files with them, or out of process_path.
Return(files) ==
    IF Len(stack) = 1
    THEN /\ stack' = <<>>
         /\ outcome' = [state |-> "ok", files |-> files]
    ELSE /\ stack' = [SubSeq(stack, 1, Len(stack) - 1) EXCEPT
                        ![Len(stack) - 1].copied_files = @ \o files]
         /\ outcome' = outcome

\* As Fail, a caller going on with its next entry after a failed one.
Fail_SkipEntry(e) ==
    IF Len(stack) = 1
    THEN /\ stack' = <<>>
         /\ outcome' = [state |-> "err", error |-> e]
    ELSE /\ stack' = SubSeq(stack, 1, Len(stack) - 1)
         /\ outcome' = outcome

\* The activation on top returns Err(e), which every caller passes on (`?`).
Fail(e) ==
    /\ stack' = <<>>
    /\ outcome' = [state |-> "err", error |-> e]

\* main, Commands::Copy: the manifest, if one is named, is parsed first, a
\* failure ending the program (`?`); then process_path is called with the
\* config.
StartCopy(file, source, destination, recursive, rename) ==
    LET parsed == IF IsSome(file) THEN copy_parse_manifest(file.some) ELSE Ok(<<>>)
        cfg    == [path |-> source, destination |-> destination,
                   recursive |-> recursive, rename |-> rename,
                   manifest |-> IF IsSome(file) /\ IsOk(parsed)
                                THEN Some(parsed.ok) ELSE None]
    IN  /\ manifest_arg' = file
        /\ IF IsErr(parsed)
           THEN /\ config' = None
                /\ stack' = <<>>
                /\ outcome' = [state |-> "err", error |-> parsed.err]
           ELSE /\ config' = Some(cfg)
                /\ stack' = <<Frame(cfg)>>
                /\ outcome' = [state |-> "running"]

\* main: the copy command, on any path, flags and manifest file
CopyCommand ==
    /\ outcome = Idle
    /\ call = None
    /\ \E source \in DOMAIN disk \cup {SrcRoot \o << <<"n">> >>},
          destination \in {OutRoot, InnerRoot},
          recursive \in BOOLEAN, rename \in BOOLEAN,
          file \in {None} \cup {Some(m) : m \in ManifestFiles} :
        StartCopy(file, source, destination, recursive, rename)
    /\ UNCHANGED <<disk, disk0, copies, listing, call>>

\* config.path.is_file(): copy_file, and its result pushed
ProcessFile ==
    /\ stack # <<>> /\ Top.pc = "enter"
    /\ is_file(disk, Top.config.path)
    /\ \E r \in 0..(NumUuids - 1) :
        LET c == Top.config
            done == copy_file(disk, c.path, c.destination, c.rename, c.manifest, r)
        IN  /\ disk' = done.disk
            /\ copies' = Append(copies,
                            [source |-> c.path, destination |-> c.destination,
                             rename |-> c.rename, manifest |-> c.manifest,
                             before |-> disk, after |-> done.disk,
                             result |-> done.result, duplicate |-> done.duplicate])
            /\ IF IsOk(done.result) THEN Return(<<done.result.ok>>)
               ELSE Fail(done.result.err)
    /\ UNCHANGED <<disk0, manifest_arg, config, listing, call>>

\* config.path.is_dir() && config.recursive: read_dir opens the directory
ProcessDir ==
    /\ stack # <<>> /\ Top.pc = "enter"
    /\ ~is_file(disk, Top.config.path)
    /\ is_dir(disk, Top.config.path) /\ Top.config.recursive
    /\ IF ~disk[Top.config.path].readable
       THEN /\ Fail(IoError("PermissionDenied", Top.config.path))
            /\ listing' = listing
       ELSE /\ \E order \in Orders(Entries(disk, Top.config.path)) :
                 /\ stack' = [stack EXCEPT ![Len(stack)].pc = "loop",
                                           ![Len(stack)].entries = order]
                 /\ listing' = [p \in DOMAIN listing \cup {Top.config.path} |->
                                  IF p = Top.config.path THEN order ELSE listing[p]]
            /\ outcome' = outcome
    /\ UNCHANGED <<disk, disk0, manifest_arg, config, copies, call>>

\* config.path.is_dir() without config.recursive: the error
ProcessDirError ==
    /\ stack # <<>> /\ Top.pc = "enter"
    /\ ~is_file(disk, Top.config.path)
    /\ ~(is_dir(disk, Top.config.path) /\ Top.config.recursive)
    /\ is_dir(disk, Top.config.path)
    /\ Fail(DirWithoutRecursive(Top.config.path))
    /\ UNCHANGED <<disk, disk0, manifest_arg, config, copies, listing, call>>

\* As ProcessOther, a path that is neither being an error.
ProcessOther_Fails ==
    /\ stack # <<>> /\ Top.pc = "enter"
    /\ ~is_file(disk, Top.config.path)
    /\ ~is_dir(disk, Top.config.path)
    /\ Fail(IoError("NotFound", Top.config.path))
    /\ UNCHANGED <<disk, disk0, manifest_arg, config, copies, listing, call>>

\* neither a file nor a directory: Ok(copied_files), which is empty
ProcessOther ==
    /\ stack # <<>> /\ Top.pc = "enter"
    /\ ~is_file(disk, Top.config.path)
    /\ ~is_dir(disk, Top.config.path)
    /\ Return(Top.copied_files)
    /\ UNCHANGED <<disk, disk0, manifest_arg, config, copies, listing, call>>

\* entries.next_entry() yields an entry: _process_path is called on it with
\* the nested config
NextEntry ==
    /\ stack # <<>> /\ Top.pc = "loop"
    /\ Top.entries # <<>>
    /\ stack' = Append([stack EXCEPT ![Len(stack)].entries = Tail(@)],
                       Frame(NestedConfig(Top.config, Head(Top.entries))))
    /\ UNCHANGED <<disk, disk0, manifest_arg, config, outcome, copies, listing, call>>

\* entries.next_entry() yields an entry that was added to the directory
\* after read_dir opened it: whether a directory stream shows such entries
\* is left to the filesystem, and those it had read before come first
LateEntry ==
    /\ stack # <<>> /\ Top.pc = "loop"
    /\ Top.entries = <<>>
    /\ \E q \in Entries(disk, Top.config.path) :
          /\ \A i \in 1..Len(listing[Top.config.path]) : listing[Top.config.path][i] # q
          /\ listing' = [listing EXCEPT ![Top.config.path] = Append(@, q)]
          /\ stack' = Append(stack, Frame(NestedConfig(Top.config, q)))
    /\ UNCHANGED <<disk, disk0, manifest_arg, config, outcome, copies, call>>

\* As EndOfDir, the end of the stream never being reported.
EndOfDir_Never ==
    /\ stack # <<>> /\ Top.pc = "loop"
    /\ Top.entries = <<>>
    /\ UNCHANGED vars

\* entries.next_entry() yields None: Ok(copied_files)
EndOfDir ==
    /\ stack # <<>> /\ Top.pc = "loop"
    /\ Top.entries = <<>>
    /\ Return(Top.copied_files)
    /\ UNCHANGED <<disk, disk0, manifest_arg, config, copies, listing, call>>

NoListing == [p \in {} |-> <<>>]

Init ==
    /\ disk \in InitDisks \cup {ArchivedDisk}
    /\ disk0 = disk
    /\ manifest_arg = None
    /\ config = None
    /\ stack = <<>>
    /\ outcome = Idle
    /\ copies = <<>>
    /\ listing = NoListing
    /\ call = None

Next ==
    \/ CopyCommand
    \/ ProcessFile
    \/ ProcessDir
    \/ ProcessDirError
    \/ ProcessOther
    \/ NextEntry
    \/ LateEntry
    \/ EndOfDir

Spec == Init /\ [][Next]_vars

\* The steps of the program other than the call of copy_file.
Steps ==
    \/ CopyCommand
    \/ ProcessDir
    \/ ProcessDirError
    \/ ProcessOther
    \/ NextEntry
    \/ LateEntry
    \/ EndOfDir

\* The condition under which ProcessFile can be taken: process_path is at
\* its is_file() test on a regular file.
FileReady ==
    /\ stack # <<>> /\ Top.pc = "enter"
    /\ is_file(disk, Top.config.path)

\* The trees on which termination is checked: the smaller source trees,
\* and the source tree that holds an archive of itself.
LiveDisks ==
    {ArchivedDisk} \cup {d \in InitDisks : Cardinality(DOMAIN d) <= MaxLiveNodes}

InitLive ==
    /\ disk \in LiveDisks
    /\ disk0 = disk
    /\ manifest_arg = None
    /\ config = None
    /\ stack = <<>>
    /\ outcome = Idle
    /\ copies = <<>>
    /\ listing = NoListing
    /\ call = None

\* The program runs on, a single thread of control with nothing to wait
\* for: whenever it has a step to take, it takes one. The fairness of
\* ProcessFile is weak fairness written out with its enabling condition.
SpecLive ==
    /\ InitLive /\ [][Next]_vars
    /\ WF_vars(Steps)
    /\ ([]<>(~FileReady) \/ []<><<ProcessFile>>_vars)

(***************************************************************************)
(* The date command and get_date, on one file of any content and times     *)
(***************************************************************************)
DateFile == << <<"f">> >>

DateDir == << <<"g">> >>

Missing == << <<"n">> >>

DateDisks ==
    { [p \in {DateFile, DateDir} |->
          IF p = DateFile THEN FileNode(content, mtime, ctime, readable)
          ELSE DirNode(TRUE)] :
      content \in Contents, mtime \in Times \cup {NoTime},
      ctime \in Times \cup {NoTime}, readable \in BOOLEAN }

InitDate ==
    /\ disk \in DateDisks
    /\ disk0 = disk
    /\ manifest_arg = None
    /\ config = None
    /\ stack = <<>>
    /\ outcome = Idle
    /\ copies = <<>>
    /\ listing = NoListing
    /\ call = None

\* main: the date command prints what main.rs get_date returns
DateCommand ==
    /\ call = None
    /\ \E file \in DOMAIN disk \cup {Missing} :
          call' = [fn |-> "date", path |-> file, result |-> main_get_date(disk, file)]
    /\ UNCHANGED <<disk, disk0, manifest_arg, config, stack, outcome, copies, listing>>

\* a call of date.rs get_date
GetDate ==
    /\ call = None
    /\ \E file \in DOMAIN disk \cup {Missing} :
          call' = [fn |-> "get_date", path |-> file, result |-> get_date(disk, file)]
    /\ UNCHANGED <<disk, disk0, manifest_arg, config, stack, outcome, copies, listing>>

NextDate ==
    \/ DateCommand
    \/ GetDate

SpecDate == InitDate /\ [][NextDate]_vars

(***************************************************************************)
(* parse_manifest and is_duplicate, on manifest files of any short text    *)
(***************************************************************************)
Alphabet == {"a", "1", " ", "\n"}

Texts == UNION {[1..n -> Alphabet] : n \in 0..MaxTextLen}

ManifestNames ==
    { <<"m", "d", "5">>, <<"s", "h", "a", "2", "5", "6">>,
      <<"s", "h", "a", "5", "1", "2">>, <<"x", "y", "z">>,
      <<"s", "h", "a", "5", "1", "2", "-", "m", "d", "5">>,
      <<"s", "h", "a", "5", "1", "2", "s", "h", "a", "2", "5", "6">>,
      <<"M", "D", "5">>, <<"m", "d", "5", BadByte>> }

InitManifest ==
    /\ disk = DiskOf({1, 3, 6})
    /\ disk0 = disk
    /\ manifest_arg \in {Some([name |-> n, text |-> t]) : n \in ManifestNames, t \in Texts}
    /\ config = None
    /\ stack = <<>>
    /\ outcome = Idle
    /\ copies = <<>>
    /\ listing = NoListing
    /\ call = None

\* a call of manifest.rs parse_manifest on the manifest file
ParseManifest ==
    /\ call = None /\ outcome = Idle
    /\ call' = [fn |-> "parse_manifest", file |-> manifest_arg.some,
                result |-> parse_manifest(manifest_arg.some)]
    /\ UNCHANGED <<disk, disk0, manifest_arg, config, stack, outcome, copies, listing>>

\* a call of copy.rs is_duplicate, without a manifest or with the parsed one
IsDuplicate ==
    /\ call = None /\ outcome = Idle
    /\ \E source \in DOMAIN disk \cup {Missing},
          manifest \in {None} \cup
                       {Some(m.ok) : m \in {m \in {copy_parse_manifest(manifest_arg.some)} : IsOk(m)}} :
          call' = [fn |-> "is_duplicate", source |-> source, manifest |-> manifest,
                   result |-> is_duplicate(disk, source, manifest).result,
                   opened |-> is_duplicate(disk, source, manifest).opened]
    /\ UNCHANGED <<disk, disk0, manifest_arg, config, stack, outcome, copies, listing>>

\* a call of manifest.rs is_duplicate, without a manifest or with the parsed one
ManifestIsDuplicate ==
    /\ call = None /\ outcome = Idle
    /\ \E source \in DOMAIN disk \cup {Missing},
          manifest \in {None} \cup
                       {Some(m.ok) : m \in {m \in {parse_manifest(manifest_arg.some)} : IsOk(m)}} :
          call' = [fn |-> "manifest_is_duplicate", source |-> source, manifest |-> manifest,
                   result |-> manifest_is_duplicate(disk, source, manifest).result,
                   opened |-> manifest_is_duplicate(disk, source, manifest).opened]
    /\ UNCHANGED <<disk, disk0, manifest_arg, config, stack, outcome, copies, listing>>

\* main: the copy command with the manifest file, into the outer destination
CopyWithManifest ==
    /\ outcome = Idle
    /\ call = None
    /\ \E source \in DOMAIN disk \cup {Missing}, recursive \in BOOLEAN :
          StartCopy(manifest_arg, source, OutRoot, recursive, FALSE)
    /\ UNCHANGED <<disk, disk0, copies, listing, call>>

NextManifest ==
    \/ ParseManifest
    \/ IsDuplicate
    \/ ManifestIsDuplicate
    \/ CopyWithManifest
    \/ ProcessFile
    \/ ProcessDir
    \/ ProcessDirError
    \/ ProcessOther
    \/ NextEntry
    \/ EndOfDir

SpecManifest == InitManifest /\ [][NextManifest]_vars

(***************************************************************************)
(* copy_file, called on a file of any short name                           *)
(***************************************************************************)
FileNameUnits == {"a", ".", "J", BadByte}

\* The names a file can have: any units but `.` and `..`, which name no file.
FileNames ==
    { n \in UNION {[1..k -> FileNameUnits] : k \in 1..MaxNameLen} :
        n \notin {<<".">>, <<".", ".">>} }

InitCopyFile ==
    /\ disk \in { [p \in {SrcRoot, SrcRoot \o <<n>>} |->
                     IF p = SrcRoot THEN DirNode(TRUE)
                     ELSE FileNode("jpegA", 1583550183, 1636497000, TRUE)] :
                  n \in FileNames }
    /\ disk0 = disk
    /\ manifest_arg = None
    /\ config = None
    /\ stack = <<>>
    /\ outcome = Idle
    /\ copies = <<>>
    /\ listing = NoListing
    /\ call = None

\* The paths without a file name: the current directory, and the parent of
\* any path.
NoNamePaths ==
    {<<>>, <<DotDot>>} \cup {p \o <<DotDot>> : p \in DOMAIN disk0 \cup {Missing}}

\* a call of copy_file
CopyFile ==
    /\ copies = <<>>
    /\ \E source \in DOMAIN disk0 \cup {Missing} \cup NoNamePaths,
          rename \in BOOLEAN,
          manifest \in {None, Some(<<Md5Hex("jpegA")>>), Some(<<Sha256Hex("jpegA")>>)},
          r \in 0..(NumUuids - 1) :
        LET done == copy_file(disk, source, OutRoot, rename, manifest, r) IN
        /\ disk' = done.disk
        /\ copies' = Append(copies,
                        [source |-> source, destination |-> OutRoot,
                         rename |-> rename, manifest |-> manifest,
                         before |-> disk, after |-> done.disk,
                         result |-> done.result, duplicate |-> done.duplicate])
    /\ UNCHANGED <<disk0, manifest_arg, config, stack, outcome, listing, call>>

NextCopyFile == CopyFile

SpecCopyFile == InitCopyFile /\ [][NextCopyFile]_vars

(***************************************************************************)
(* The copy command run a second time with the arguments of the first      *)
(***************************************************************************)
\* A source tree with a file that may be written and one that may not.
ReadOnlyDisk ==
    [DiskOf({1, 2}) EXCEPT ![SrcRoot \o <<NameB>>] = ReadOnly(@)]

\* The trees the command is run twice on: the source trees, among them one
\* with two files of the same name, and the one with a read-only file.
RerunDisks == InitDisks \cup {ReadOnlyDisk}

InitRerun ==
    /\ disk \in RerunDisks
    /\ disk0 = disk
    /\ manifest_arg = None
    /\ config = None
    /\ stack = <<>>
    /\ outcome = Idle
    /\ copies = <<>>
    /\ listing = NoListing
    /\ call = None

\* The manifest file that lists the MD5 digest of s/a.J.
Md5Manifest ==
    [name |-> <<"m", "d", "5">>,
     text |-> <<"a", "1", " ", "s", "/", "a", "\n", "\n", "a", "5", "\n">>]

\* main: the copy command with a destination outside the source tree
CopyOutside ==
    /\ outcome = Idle
    /\ call = None
    /\ \E source \in DOMAIN disk \cup {Missing},
          recursive \in BOOLEAN, rename \in BOOLEAN,
          file \in {None, Some(Md5Manifest)} :
        StartCopy(file, source, OutRoot, recursive, rename)
    /\ UNCHANGED <<disk, disk0, copies, listing, call>>

\* main, a second time: process_path is called with the config of the run
\* that has ended, on the filesystem that run left; what the first run
\* returned and left is kept for comparison.
Rerun ==
    /\ IsSome(config) /\ outcome.state \in {"ok", "err"}
    /\ call = None
    /\ call' = [fn |-> "process_path", outcome |-> outcome, disk |-> disk,
                listing |-> listing, copies |-> copies]
    /\ stack' = <<Frame(config.some)>>
    /\ outcome' = [state |-> "running"]
    /\ copies' = <<>>
    /\ listing' = NoListing
    /\ UNCHANGED <<disk, disk0, manifest_arg, config>>

NextRerun ==
    \/ CopyOutside
    \/ ProcessFile
    \/ ProcessDir
    \/ ProcessDirError
    \/ ProcessOther
    \/ NextEntry
    \/ EndOfDir
    \/ Rerun

SpecRerun == InitRerun /\ [][NextRerun]_vars

(***************************************************************************)
(* Properties of the copy pipeline                                         *)
(***************************************************************************)
Finished == IsSome(config) /\ outcome.state \in {"ok", "err"}

\* The regular files of filesystem d at or below root.
FilesUnder(d, root) == {p \in DOMAIN d : d[p].kind = "file" /\ Under(p, root)}

AllDigits(s) == \A i \in 1..Len(s) : IsDigit(s[i])

RECURSIVE DecimalValue(_)
DecimalValue(s) ==
    IF s = <<>> THEN 0
    ELSE DecimalValue(SubSeq(s, 1, Len(s) - 1)) * 10 + DigitVal(s[Len(s)])

\* What the traversal yields for path p, read off the record of the run: for
\* a directory that was listed, the yields of its entries in the order of
\* the listing, one after the other; for a file copy_file returned a path
\* for, that path; nothing otherwise.
RECURSIVE Flatten(_)
RECURSIVE FlattenAll(_)
Flatten(p) ==
    IF p \in DOMAIN listing THEN FlattenAll(listing[p])
    ELSE IF \E i \in DOMAIN copies : copies[i].source = p /\ IsOk(copies[i].result)
    THEN <<copies[CHOOSE i \in DOMAIN copies : copies[i].source = p].result.ok>>
    ELSE <<>>

FlattenAll(order) ==
    IF order = <<>> THEN <<>> ELSE Flatten(Head(order)) \o FlattenAll(Tail(order))

\* The destination root is neither inside the processed path nor above it.
Disjoint(cfg) ==
    ~Under(cfg.destination, cfg.path) /\ ~Under(cfg.path, cfg.destination)

\* C1: process_path fails with the "is a directory. Use --recursive" error,
\* naming the path and returning no list, exactly when the top-level path is
\* a directory and recursive is false; every nested config carries the
\* recursive flag of the top-level one, so an operation started with
\* recursive = true never raises the error, at any depth.
C1_DirectoryWithoutRecursive ==
    /\ \A i \in 1..Len(stack) :
          IsSome(config) /\ stack[i].config.recursive = config.some.recursive
    /\ Finished =>
          ( (outcome.state = "err" /\ outcome.error.what = DirWithoutRecursive(<<>>).what)
            <=> (is_dir(disk0, config.some.path) /\ ~is_file(disk0, config.some.path)
                 /\ ~config.some.recursive) )
    /\ (Finished /\ outcome.state = "err"
        /\ outcome.error.what = DirWithoutRecursive(<<>>).what)
          => (outcome.error = DirWithoutRecursive(config.some.path)
              /\ "files" \notin DOMAIN outcome)

C1_Witness ==
    /\ Finished /\ outcome.state = "err"
    /\ outcome.error = DirWithoutRecursive(config.some.path)
    /\ Entries(disk0, config.some.path) # {}

\* C2 as stated: a directory processed with recursive = true and no failing
\* step yields exactly one result per regular file the tree contained, in
\* the order of the enumeration, a subdirectory's results as one block.
C2_Original ==
    (Finished /\ outcome.state = "ok" /\ config.some.recursive
     /\ is_dir(disk0, config.some.path))
       => /\ Len(outcome.files) = Cardinality(FilesUnder(disk0, config.some.path))
          /\ outcome.files = Flatten(config.some.path)

\* C2, amended: the result is the concatenation of the per-entry results in
\* the order of the enumeration, a subdirectory's results as one block; and
\* when the destination root is neither inside the processed directory nor
\* above it, there is exactly one result per regular file of the tree, each
\* file having been handed to copy_file once.
C2_ResultsInEnumerationOrder ==
    (Finished /\ outcome.state = "ok" /\ config.some.recursive
     /\ is_dir(disk0, config.some.path))
       => /\ outcome.files = Flatten(config.some.path)
          /\ Disjoint(config.some) =>
               /\ Len(outcome.files) = Cardinality(FilesUnder(disk0, config.some.path))
               /\ Len(copies) = Len(outcome.files)
               /\ {copies[i].source : i \in DOMAIN copies}
                     = FilesUnder(disk0, config.some.path)

C2_Witness ==
    /\ Finished /\ outcome.state = "ok" /\ config.some.recursive
    /\ is_dir(disk0, config.some.path) /\ Disjoint(config.some)
    /\ Len(outcome.files) = 2
    /\ Cardinality(DOMAIN listing) = 2
    /\ listing[config.some.path][1] \in DOMAIN listing

\* C3: a file copy_file copies with rename = false lands at
\* destination/<year>/<MM>/<DD>/<name>: year, month and day those of the
\* file's resolved date, month and day of exactly two digits, the year in
\* decimal without padding, the name the source's.
C3_DatePathLayout ==
    \A i \in DOMAIN copies :
        LET c == copies[i]
            n == Len(c.destination)
        IN  (~c.rename /\ ~c.duplicate /\ IsOk(c.result)) =>
              LET p    == c.result.ok
                  date == get_date(c.before, c.source).ok
              IN  /\ Len(p) = n + 4
                  /\ SubSeq(p, 1, n) = c.destination
                  /\ AllDigits(p[n + 1]) /\ DecimalValue(p[n + 1]) = date.year
                  /\ Len(p[n + 1]) = 1 \/ p[n + 1][1] # "0"
                  /\ Len(p[n + 2]) = 2 /\ AllDigits(p[n + 2])
                  /\ DecimalValue(p[n + 2]) = date.month
                  /\ Len(p[n + 3]) = 2 /\ AllDigits(p[n + 3])
                  /\ DecimalValue(p[n + 3]) = date.day
                  /\ p[n + 4] = c.source[Len(c.source)]

C3_Witness ==
    \E i \in DOMAIN copies :
        /\ ~copies[i].rename /\ ~copies[i].duplicate /\ IsOk(copies[i].result)
        /\ SubSeq(copies[i].result.ok, Len(copies[i].destination) + 1,
                  Len(copies[i].destination) + 3)
             = << <<"9", "2", "1">>, <<"0", "3">>, <<"0", "7">> >>

\* C4: with a manifest that holds the digest of the source, copy_file returns
\* the source path and leaves the filesystem as it was (no file written, no
\* directory made); with a manifest that does not hold it, a path copy_file
\* returns is below the destination and a file is there.
C4_DuplicateLeavesDiskAlone ==
    \A i \in DOMAIN copies :
        LET c == copies[i] IN
        (IsSome(c.manifest) /\ IsOk(ReadFile(c.before, c.source))) =>
            IF InChecksums(Md5Hex(c.before[c.source].content), c.manifest.some)
            THEN c.result = Ok(c.source) /\ c.after = c.before
            ELSE IsOk(c.result) =>
                   /\ ~c.duplicate
                   /\ Under(c.result.ok, c.destination)
                   /\ c.result.ok # c.destination
                   /\ is_file(c.after, c.result.ok)

C4_Witness ==
    \E i \in DOMAIN copies :
        /\ IsSome(copies[i].manifest) /\ copies[i].duplicate
        /\ copies[i].result = Ok(copies[i].source)
        /\ ~Exists(copies[i].after, copies[i].destination)

\* C5: the duplicate check of the pipeline uses the algorithm of the loaded
\* manifest: a file whose digest under that algorithm is an entry of the
\* manifest is reported as a duplicate and not copied.
C5_DigestOfManifestAlgorithm ==
    \A i \in DOMAIN copies :
        LET c == copies[i] IN
        (IsSome(manifest_arg) /\ IsSome(c.manifest)
         /\ IsOk(ReadFile(c.before, c.source))
         /\ InChecksums(calculate_hash(from_filename(manifest_arg.some.name),
                                       c.before[c.source].content),
                        c.manifest.some))
           => (c.duplicate /\ c.result = Ok(c.source) /\ c.after = c.before)

(***************************************************************************)
(* Properties of is_duplicate, get_date and parse_manifest                 *)
(***************************************************************************)
\* C6: without a manifest is_duplicate answers Ok(None) for any path, one
\* that does not exist or cannot be read included, and opens no file.
C6_NoManifestNoMatch ==
    (call # None /\ call.fn \in {"is_duplicate", "manifest_is_duplicate"}
     /\ call.manifest = None)
       => (call.result = Ok(None) /\ call.opened = {})

C6_Witness ==
    /\ call # None /\ call.fn = "is_duplicate" /\ call.manifest = None
    /\ IsErr(ReadFile(disk, call.source))
    /\ call.result = Ok(None)

\* Whether `call` is a completed date resolution of a regular file that can
\* be read.
ResolvedReadableFile ==
    /\ call # None /\ call.fn \in {"get_date", "date"}
    /\ is_file(disk, call.path) /\ disk[call.path].readable

\* C7: for a file without a parseable embedded date, every date-resolution
\* routine (the date command's, the pipeline's) returns the modification
\* time in local calendar time, never the creation time.
C7_FallbackIsModificationTime ==
    (ResolvedReadableFile /\ ~IsSome(ExifDate(disk[call.path].content))
     /\ disk[call.path].mtime # NoTime)
       => call.result = Ok(NaiveLocal(disk[call.path].mtime))

\* The date-times the embedded fields of the contents that have one spell.
EmbeddedDateTime(content) ==
    CASE content = "jpegA" ->
            [year |-> 2020, month |-> 12, day |-> 26, hour |-> 10, minute |-> 11, second |-> 12]
      [] content = "jpegB" ->
            [year |-> 921, month |-> 3, day |-> 7, hour |-> 1, minute |-> 2, second |-> 3]
      [] content = "jpegC" ->
            [year |-> 2020, month |-> 12, day |-> 26, hour |-> 23, minute |-> 59, second |-> 59]

\* C8: for a file whose embedded date field parses, get_date returns that
\* date-time whatever the filesystem times are, also when the filesystem
\* records none: they are consulted only when the embedded step yields
\* nothing.
C8_EmbeddedDateWins ==
    (ResolvedReadableFile /\ disk[call.path].content \in {"jpegA", "jpegB", "jpegC"})
       => call.result = Ok(EmbeddedDateTime(disk[call.path].content))

C8_Witness ==
    /\ ResolvedReadableFile /\ call.fn = "get_date"
    /\ disk[call.path].content = "jpegB"
    /\ disk[call.path].mtime = NoTime
    /\ IsOk(call.result)

\* C9: get_date returns a date whenever the file's metadata and modification
\* time can be read, even if the file's contents cannot.
C9_FailsOnlyWithoutMetadata ==
    (call # None /\ call.fn = "get_date" /\ Exists(disk, call.path)
     /\ disk[call.path].mtime # NoTime)
       => IsOk(call.result)

\* The positions of text t at which a line begins, the position after the
\* line that begins at i, and the positions of that line holding a
\* character that is not white space.
LineStarts(t) == {i \in 1..Len(t) : i = 1 \/ t[i - 1] = "\n"}

LineEnd(t, i) ==
    CHOOSE k \in i..(Len(t) + 1) :
        (k = Len(t) + 1 \/ t[k] = "\n") /\ \A j \in i..(k - 1) : t[j] # "\n"

Ink(t, i) == {j \in i..(LineEnd(t, i) - 1) : ~IsSpace(t[j])}

\* The first token of the line that begins at i: from its first character
\* that is not white space up to the next white space or the end.
TokenAt(t, i) ==
    LET j == CHOOSE j \in Ink(t, i) : \A m \in Ink(t, i) : j <= m
        k == CHOOSE k \in (j + 1)..(Len(t) + 1) :
                (k = Len(t) + 1 \/ IsSpace(t[k]))
                /\ \A m \in j..(k - 1) : ~IsSpace(t[m])
    IN  SubSeq(t, j, k - 1)

\* The first tokens of the lines of t that are not blank, in file order.
FirstTokens(t) ==
    LET S == {i \in LineStarts(t) : Ink(t, i) # {}}
        nth(n) == CHOOSE x \in S : Cardinality({y \in S : y < x}) = n - 1
    IN  [n \in 1..Cardinality(S) |-> TokenAt(t, nth(n))]

\* C10: parse_manifest returns the first white-space-delimited token of each
\* line that is not blank, in file order, one entry per such line, repeated
\* digests kept and the other tokens of a line ignored.
C10_FirstTokenPerLine ==
    (call # None /\ call.fn = "parse_manifest" /\ IsOk(call.result))
       => /\ call.result.ok.checksums = FirstTokens(call.file.text)
          /\ Len(call.result.ok.checksums)
               = Cardinality({i \in LineStarts(call.file.text) : Ink(call.file.text, i) # {}})

C10_Witness ==
    /\ call # None /\ call.fn = "parse_manifest" /\ IsOk(call.result)
    /\ Len(call.result.ok.checksums) = 2
    /\ call.result.ok.checksums[1] = call.result.ok.checksums[2]

\* Whether text t has no line that is not blank: all of it is white space.
NoInk(t) == \A i \in 1..Len(t) : IsSpace(t[i])

\* C11: parse_manifest fails, with the "Manifest file is empty" error,
\* exactly when the manifest text has no line that is not blank, and
\* succeeds otherwise; a copy command given such a manifest ends with that
\* error before process_path is called: no file is examined, no directory
\* listed or made, no file copied.
C11_EmptyManifestStopsAtLoad ==
    /\ (call # None /\ call.fn = "parse_manifest") =>
          /\ IsErr(call.result) <=> NoInk(call.file.text)
          /\ IsErr(call.result) => call.result = Err(ManifestEmpty)
    /\ (outcome # Idle /\ IsSome(manifest_arg)) =>
          IF NoInk(manifest_arg.some.text)
          THEN /\ outcome = [state |-> "err", error |-> ManifestEmpty]
               /\ config = None /\ stack = <<>>
               /\ disk = disk0 /\ copies = <<>> /\ listing = NoListing
          ELSE /\ IsSome(config) /\ IsSome(config.some.manifest)
               /\ outcome.state = "err" => outcome.error # ManifestEmpty

C11_Witness ==
    /\ outcome = [state |-> "err", error |-> ManifestEmpty]
    /\ IsSome(manifest_arg) /\ Len(manifest_arg.some.text) = MaxTextLen
    /\ manifest_arg.some.text[1] = "\n" /\ manifest_arg.some.text[2] = " "
    /\ copies = <<>> /\ disk = disk0

\* Whether the characters of `pat` stand in `name` one after the other,
\* starting at some position.
Occurs(name, pat) ==
    \E i \in 1..Len(name) :
        \A k \in 1..Len(pat) : i + k - 1 <= Len(name) /\ name[i + k - 1] = pat[k]

\* The algorithm the markers in text `name` stand for, in the order md5,
\* sha256, sha512, and SHA256 if it has none of them.
MarkedAlgorithm(name) ==
    IF Occurs(name, <<"m", "d", "5">>) THEN "MD5"
    ELSE IF Occurs(name, <<"s", "h", "a", "2", "5", "6">>) THEN "SHA256"
    ELSE IF Occurs(name, <<"s", "h", "a", "5", "1", "2">>) THEN "SHA512"
    ELSE "SHA256"

\* C12 as stated: from_filename always yields an algorithm, never an error:
\* MD5 if the manifest's file name contains "md5"; else SHA256 if it
\* contains "sha256"; else SHA512 if it contains "sha512"; else SHA256.  A
\* name with several markers gets the first of md5, sha256, sha512 it
\* contains, wherever in the name they stand.
C12_Original ==
    (call # None /\ call.fn = "parse_manifest" /\ IsOk(call.result)) =>
        /\ call.result.ok.algorithm \in {"MD5", "SHA256", "SHA512"}
        /\ call.result.ok.algorithm = MarkedAlgorithm(call.file.name)

\* C12, amended: the markers are looked for in a file name that is valid
\* Unicode; a file name that is not gets SHA256, whatever it contains.
C12_AlgorithmFromFileName ==
    (call # None /\ call.fn = "parse_manifest" /\ IsOk(call.result)) =>
        /\ call.result.ok.algorithm \in {"MD5", "SHA256", "SHA512"}
        /\ call.result.ok.algorithm
             = IF \E k \in 1..Len(call.file.name) : call.file.name[k] = BadByte
               THEN "SHA256" ELSE MarkedAlgorithm(call.file.name)

C12_Witness ==
    /\ call # None /\ call.fn = "parse_manifest" /\ IsOk(call.result)
    /\ Occurs(call.file.name, <<"s", "h", "a", "5", "1", "2">>)
    /\ Occurs(call.file.name, <<"m", "d", "5">>)
    /\ call.result.ok.algorithm = "MD5"

\* The last call of copy_file that wrote a file at path p.
LastCopyTo(p) ==
    CHOOSE i \in DOMAIN copies :
        /\ ~copies[i].duplicate /\ copies[i].result = Ok(p)
        /\ \A j \in DOMAIN copies :
              (~copies[j].duplicate /\ copies[j].result = Ok(p)) => j <= i

\* C13: when copy_file succeeds on a file that is no duplicate, the file at
\* the path it returns holds the bytes the source held, whatever was at
\* that path before; so when the operation has ended, each path written
\* holds the bytes of the last source, in traversal order, copied to it.
C13_LastWriteWins ==
    /\ \A i \in DOMAIN copies :
          LET c == copies[i] IN
          (~c.duplicate /\ IsOk(c.result)) =>
              /\ is_file(c.after, c.result.ok)
              /\ c.after[c.result.ok].content = c.before[c.source].content
    /\ (Finished /\ outcome.state = "ok") =>
          \A i \in DOMAIN copies :
              (~copies[i].duplicate /\ IsOk(copies[i].result)) =>
                  LET p    == copies[i].result.ok
                      last == copies[LastCopyTo(p)]
                  IN  /\ is_file(disk, p)
                      /\ disk[p].content = last.before[last.source].content

\* Whether `id` reads as a UUID in lower case: 36 characters, dashes at
\* the places 9, 14, 19 and 24, elsewhere the digits 0-9 and a-f.
WellFormedId(id) ==
    /\ Len(id) = 36
    /\ \A i \in 1..36 :
          IF i \in {9, 14, 19, 24} THEN id[i] = "-"
          ELSE id[i] \in {"0", "1", "2", "3", "4", "5", "6", "7", "8", "9",
                          "a", "b", "c", "d", "e", "f"}

\* The places of file name `name` after which its extension stands: the
\* last `.`, unless the name starts with it.
ExtensionDots(name) ==
    {k \in 2..Len(name) : name[k] = "." /\ \A j \in (k + 1)..Len(name) : name[j] # "."}

\* The extension of file name `name`, empty if it has none.
ExtensionOf(name) ==
    IF ExtensionDots(name) = {} THEN <<>>
    ELSE SubSeq(name, (CHOOSE k \in ExtensionDots(name) : TRUE) + 1, Len(name))

\* C14 as stated: with rename = true the file name written is a fresh
\* 36-character identifier of lower-case hexadecimal digits and dashes,
\* followed by `.` and the source's extension, unchanged, when the source
\* has an extension that is not empty, and by nothing when it has none; no
\* part of it comes from the source's base name.
C14_Original ==
    \A i \in DOMAIN copies :
        LET c == copies[i] IN
        (c.rename /\ ~c.duplicate /\ IsOk(c.result)) =>
            LET name == c.result.ok[Len(c.result.ok)]
                ext  == ExtensionOf(c.source[Len(c.source)])
            IN  /\ Len(name) >= 36 /\ WellFormedId(SubSeq(name, 1, 36))
                /\ SubSeq(name, 37, Len(name))
                      = IF ext = <<>> THEN <<>> ELSE <<".">> \o ext

\* C14, amended: the extension follows the identifier when it is not empty
\* and is valid Unicode; a source without extension, with an empty one or
\* with one that is not valid Unicode gets the identifier alone.
C14_UuidNameKeepsExtension ==
    \A i \in DOMAIN copies :
        LET c == copies[i] IN
        (c.rename /\ ~c.duplicate /\ IsOk(c.result)) =>
            LET name == c.result.ok[Len(c.result.ok)]
                ext  == ExtensionOf(c.source[Len(c.source)])
            IN  /\ Len(name) >= 36 /\ WellFormedId(SubSeq(name, 1, 36))
                /\ SubSeq(name, 37, Len(name))
                      = IF ext = <<>> \/ \E k \in 1..Len(ext) : ext[k] = BadByte
                        THEN <<>> ELSE <<".">> \o ext
                /\ Under(c.result.ok, c.destination)
                /\ is_file(c.after, c.result.ok)

C14_Witness ==
    \E i \in DOMAIN copies :
        /\ copies[i].rename /\ ~copies[i].duplicate /\ IsOk(copies[i].result)
        /\ copies[i].source[Len(copies[i].source)] = <<"a", ".", "J">>
        /\ Len(copies[i].result.ok[Len(copies[i].result.ok)]) = 38
        /\ SubSeq(copies[i].result.ok[Len(copies[i].result.ok)], 37, 38) = <<".", "J">>

\* Whether the traversal went into entry e: listed it or handed it to
\* copy_file.
Entered(e) == e \in DOMAIN listing \/ \E i \in DOMAIN copies : copies[i].source = e

\* Whether the operation on a directory, recursive, has ended in an error.
FailedRecursive ==
    /\ Finished /\ outcome.state = "err"
    /\ config.some.recursive /\ is_dir(disk0, config.some.path)

\* Whether the last call of copy_file, in an operation on a directory,
\* recursive, has failed.
StepFailed ==
    /\ IsSome(config) /\ config.some.recursive /\ is_dir(disk0, config.some.path)
    /\ copies # <<>> /\ IsErr(copies[Len(copies)].result)

\* The path the failing step of the operation was on: the source of the
\* failing call of copy_file, or else the directory that could not be read.
FailingPath ==
    IF copies # <<>> /\ IsErr(copies[Len(copies)].result)
    THEN copies[Len(copies)].source ELSE outcome.error.path

\* C15: when a step of a recursive operation fails, process_path returns
\* the error of that step as it is and no list; no call of copy_file
\* follows a failed one, no entry listed after the failing one is gone
\* into; and every file copied before stays where it was written, the
\* filesystem being as the last step left it.
C15_FailureEndsTheOperation ==
    /\ \A i \in 1..(Len(copies) - 1) : IsOk(copies[i].result)
    /\ StepFailed =>
          FailedRecursive /\ outcome.error = copies[Len(copies)].result.err
    /\ FailedRecursive =>
        /\ stack = <<>>
        /\ DOMAIN outcome = {"state", "error"}
        /\ \/ StepFailed
           \/ /\ outcome.error = IoError("PermissionDenied", FailingPath)
              /\ is_dir(disk, FailingPath) /\ ~disk[FailingPath].readable
              /\ FailingPath \notin DOMAIN listing
        /\ \A p \in DOMAIN listing :
              \A k \in 1..Len(listing[p]) :
                  Under(FailingPath, listing[p][k]) =>
                      \A j \in (k + 1)..Len(listing[p]) : ~Entered(listing[p][j])
        /\ disk = IF copies = <<>> THEN disk0 ELSE copies[Len(copies)].after
        /\ \A i \in DOMAIN copies :
              (IsOk(copies[i].result) /\ ~copies[i].duplicate)
                 => is_file(disk, copies[i].result.ok)
        /\ \A q \in DOMAIN disk0 : Exists(disk, q)

C15_Witness ==
    /\ FailedRecursive
    /\ Len(copies) = 2 /\ ~copies[1].duplicate
    /\ is_file(disk, copies[1].result.ok) /\ ~Exists(disk0, copies[1].result.ok)
    /\ \E k \in 1..Len(listing[config.some.path]) :
          /\ is_file(disk0, listing[config.some.path][k])
          /\ ~Entered(listing[config.some.path][k])

\* C16: no step of an archive operation changes the source: every file
\* that was at or below the processed path when the operation started is
\* still there with the bytes it had, whatever the flags, whether the
\* operation succeeds or fails, and also when the destination root lies
\* inside the source tree.
C16_SourceNeverMutated ==
    IsSome(config) =>
        \A p \in FilesUnder(disk0, config.some.path) :
            is_file(disk, p) /\ disk[p].content = disk0[p].content

\* Whether the operation has ended with a list of paths.
Succeeded == Finished /\ outcome.state = "ok"

\* C17 as stated: every path of the list process_path returns is a path
\* below the destination root at which the operation wrote a file, for any
\* flags, with or without a manifest.
C17_Original ==
    Succeeded =>
        \A k \in 1..Len(outcome.files) :
            /\ Under(outcome.files[k], config.some.destination)
            /\ outcome.files[k] # config.some.destination
            /\ is_file(disk, outcome.files[k])
            /\ \E i \in DOMAIN copies :
                  /\ copies[i].result = Ok(outcome.files[k])
                  /\ ~copies[i].duplicate

\* C17, amended: the list holds the results of the calls of copy_file, in
\* order; the path of a file that is no duplicate is a path below the
\* destination root at which that call wrote a file; the path of a file
\* whose MD5 digest is in the manifest is the path of that source file, for
\* which nothing was written.
C17_ResultsAreCopyFileResults ==
    Succeeded =>
        /\ Len(outcome.files) = Len(copies)
        /\ \A k \in 1..Len(outcome.files) :
              LET c == copies[k] IN
              /\ c.result = Ok(outcome.files[k])
              /\ IF IsSome(c.manifest)
                    /\ InChecksums(Md5Hex(c.before[c.source].content), c.manifest.some)
                 THEN c.duplicate /\ outcome.files[k] = c.source /\ c.after = c.before
                 ELSE /\ Under(outcome.files[k], config.some.destination)
                      /\ outcome.files[k] # config.some.destination
                      /\ is_file(c.after, outcome.files[k])
                      /\ is_file(disk, outcome.files[k])
                      /\ ~c.duplicate

C17_Witness ==
    /\ Succeeded /\ Len(outcome.files) = 2
    /\ \E k \in 1..2 : outcome.files[k] \in DOMAIN disk0
    /\ \E k \in 1..2 : /\ Under(outcome.files[k], config.some.destination)
                        /\ ~Exists(disk0, outcome.files[k])

\* Whether path p is neither a regular file nor a directory: missing, or a
\* node of another kind.  (No step removes a node or changes its kind.)
NeitherFileNorDir(p) == ~is_file(disk, p) /\ ~is_dir(disk, p)

\* C18: a path that is neither a regular file nor a directory is skipped
\* without a word.  At the top level process_path returns the empty list
\* and the filesystem is as it was; as an entry of a directory being
\* processed it adds nothing to the list, is never the cause of an error,
\* and the entries listed after it are processed: in an operation that
\* succeeded every regular file listed was handed to copy_file.
C18_OtherPathsSkipped ==
    /\ (Finished /\ ~is_file(disk0, config.some.path)
        /\ ~is_dir(disk0, config.some.path)) =>
          /\ outcome = [state |-> "ok", files |-> <<>>]
          /\ disk = disk0 /\ copies = <<>> /\ listing = NoListing
    /\ \A p \in DOMAIN listing :
          \A k \in 1..Len(listing[p]) :
              NeitherFileNorDir(listing[p][k]) =>
                  /\ ~Entered(listing[p][k])
                  /\ Flatten(listing[p][k]) = <<>>
                  /\ (Finished /\ outcome.state = "err")
                        => ~Under(FailingPath, listing[p][k])
                  /\ Succeeded =>
                        \A j \in 1..Len(listing[p]) :
                            is_file(disk, listing[p][j]) => Entered(listing[p][j])

C18_Witness ==
    /\ Succeeded /\ config.some.path \in DOMAIN listing
    /\ Len(listing[config.some.path]) = 3
    /\ is_file(disk0, listing[config.some.path][1])
    /\ NeitherFileNorDir(listing[config.some.path][2])
    /\ is_file(disk0, listing[config.some.path][3])
    /\ Len(outcome.files) = 2

\* Whether path p has no file name: it is empty or ends in `..`.
HasNoFileName(p) == p = <<>> \/ p[Len(p)] = <<".", ".">>

\* C19: copy_file fails whenever the source path has no file-name
\* component, with rename = true as with rename = false, with or without a
\* manifest, and leaves the filesystem as it was: no directory made, no
\* file written.
C19_NoFileNameFails ==
    \A i \in DOMAIN copies :
        HasNoFileName(copies[i].source) =>
            /\ IsErr(copies[i].result)
            /\ copies[i].after = copies[i].before

C19_Witness ==
    \E i \in DOMAIN copies :
        /\ HasNoFileName(copies[i].source) /\ copies[i].source # <<>>
        /\ is_dir(copies[i].before, copies[i].source)
        /\ copies[i].rename /\ copies[i].manifest = None
        /\ IsErr(copies[i].result)
        /\ ~Exists(copies[i].after, copies[i].destination)

DestinationFiles(d) ==
    [p \in {q \in DOMAIN d : Under(q, OutRoot) /\ d[q].kind = "file"} |-> d[p].content]

\* The second run of a command has ended, its first run having succeeded
\* with rename = false and a destination disjoint from the source.
RerunEnded ==
    /\ call # None /\ Finished
    /\ ~config.some.rename /\ Disjoint(config.some)
    /\ call.outcome.state = "ok"

\* C21: with rename = false, a source tree disjoint from the destination and
\* unchanged between the runs, a second run of process_path with the same
\* config succeeds, returns the result sequence the first run returned, and
\* leaves the files of the destination and their contents as the first run
\* left them.
C21_RerunIdempotent ==
    RerunEnded =>
        /\ outcome.state = "ok"
        /\ outcome.files = call.outcome.files
        /\ DestinationFiles(disk) = DestinationFiles(call.disk)

====
